---- MODULE Spec2Model ----
(***************************************************************************)
(* Supervision core of caslex: Server::run (caslex/src/server.rs) with its *)
(* Background Units (trait Process), the two listeners started by          *)
(* bootstrap_server, and the process-wide SHUTDOWN_TOKEN.                   *)
(*                                                                         *)
(* One invocation of Server::run is followed at a time.  The statics of    *)
(* the process (SHUTDOWN_TOKEN, the panic hook) outlive an invocation; the *)
(* per-invocation state (tasks, listener futures, result) is rebuilt when  *)
(* the caller invokes run() again.                                         *)
(*                                                                         *)
(* Two smaller parts of the repository are followed on their own, each     *)
(* under a specification of its own while the supervisor stays idle: the   *)
(* router's fallback handlers (RouterSpec) and caslex-extra's closer       *)
(* (CloserSpec).                                                           *)
(***************************************************************************)
EXTENDS Naturals, FiniteSets, Sequences

\* Largest number of Background Units registered on a Server.
MaxUnits == 2

\* Largest number of Server::run invocations the caller makes in the process.
MaxRuns == 2

\* Largest number of callbacks registered with the closer.
MaxCallbacks == 2

\* Largest number of cleanup_resources calls made in the process.
MaxCleanups == 2

Units == 1..MaxUnits

\* enum ServerKind
ServerKinds == {"application", "metrics"}

VARIABLES
    invocation,   \* number of Server::run invocations started so far
    pc,           \* position of the current invocation inside Server::run
    nUnits,       \* processes.len() of the current invocation
    idx,          \* position of the `for task in ...` loop being awaited
    preTask,      \* unit -> state of its spawned timeout(pre_run) task
    runTask,      \* unit -> state of its spawned run task
    listener,     \* ServerKind -> state of the bootstrap_server future
    cancelled,    \* SHUTDOWN_TOKEN.is_cancelled()
    cancelCalls,  \* number of SHUTDOWN_TOKEN.cancel() calls made in the process
    hook,         \* which panic hook the process has installed
    logged,       \* units whose run error was written by tracing::error!
    signalled,    \* a termination signal reached a shutdown_signal() of this invocation
    result,       \* value Server::run resolved to
    routes,       \* Server.router: path -> methods the caller's router serves
    request,      \* the request the router was last given
    response,     \* the response the router gave to it
    closers,      \* Closer.closers: the registered callbacks, in order
    lock,         \* who holds the CLOSER mutex
    pos,          \* position of close()'s iteration over closers
    ran,          \* callback -> number of times it was invoked
    regAt,        \* callback -> cleanup_resources calls made before it was registered
    cleanups      \* number of cleanup_resources calls that have returned

serverVars == <<invocation, pc, nUnits, idx, preTask, runTask, listener,
                cancelled, cancelCalls, hook, logged, signalled, result>>
routerVars == <<routes, request, response>>
closerVars == <<closers, lock, pos, ran, regAt, cleanups>>

vars == <<serverVars, routerVars, closerVars>>

\* Units registered in the current invocation (processes, in registration order).
Registered == 1..nUnits

\* States of a spawned timeout(PROCESS_PRE_RUN_TIMEOUT, pre_run) task.
\*   running : pre_run pending,  ok / err : pre_run returned Ok(()) / Err(e),
\*   elapsed : the timeout fired first,  panic : the task panicked (JoinError).
PreStates == {"none", "running", "ok", "err", "elapsed", "panic"}

\* States of a spawned run task.
\*   started   : executing, not waiting on the token
\*   suspended : pending inside token.cancelled()
\*   woken     : cancel() completed its cancelled() future; not yet polled again
\*   ok / err  : run returned Ok(()) / Err(e),  panic : the task panicked
RunStates == {"none", "started", "suspended", "woken", "ok", "err", "panic"}
RunLive == {"started", "suspended", "woken"}
RunReturned == {"ok", "err"}
RunExited == {"ok", "err", "panic"}

\* States of a bootstrap_server future.
\*   lazy     : created, never polled (no socket)
\*   serving  : bound, inside axum::serve
\*   notified : shutdown_signal() completed, graceful shutdown in progress
\*   stopped  : returned Ok(())
\*   bind_err / serve_err : returned Err
\*   dropped  : bound, then dropped by Server::run returning
ListenerStates == {"lazy", "serving", "notified", "stopped",
                   "bind_err", "serve_err", "dropped"}
ListenerBound == {"serving", "notified", "stopped", "serve_err", "dropped"}
ListenerFailed == {"bind_err", "serve_err"}

Results == {"none", "ok", "prerun_timeout", "prerun_join",
            "bind_error", "serve_error", "run_join"}

\* Paths of the routes get_default_router adds to every router.
DefaultPaths == {"/readiness", "/liveness"}

\* Paths the caller's router may serve.
UserPaths == {"/items", "/orders"}

\* Paths a request may name; nothing serves "/missing".
Paths == DefaultPaths \cup UserPaths \cup {"/missing"}

Methods == {"GET", "POST"}

\* StatusCode::INTERNAL_SERVER_ERROR and StatusCode::OK
INTERNAL_SERVER_ERROR == 500
OK == 200

NoRequest == <<>>
NoResponse == [status |-> 0, kind |-> ""]

\* Callbacks that may be registered; each registration is a closure of its own.
Callbacks == 1..MaxCallbacks

\* Threads that call into the closer.
Callers == {"main", "worker"}

TypeOK ==
    /\ invocation \in 0..MaxRuns
    /\ pc \in {"idle", "prerun", "spawn", "serve", "drain", "done"}
    /\ nUnits \in 0..MaxUnits
    /\ idx \in 1..(MaxUnits + 1)
    /\ preTask \in [Units -> PreStates]
    /\ runTask \in [Units -> RunStates]
    /\ listener \in [ServerKinds -> ListenerStates]
    /\ cancelled \in BOOLEAN
    /\ cancelCalls \in 0..MaxRuns
    /\ hook \in {"previous", "server"}
    /\ logged \subseteq Units
    /\ signalled \in BOOLEAN
    /\ result \in Results
    /\ routes \in [UserPaths -> SUBSET Methods]
    /\ request \in {NoRequest} \cup (Paths \X Methods)
    /\ response \in [status : {0, OK, INTERNAL_SERVER_ERROR},
                     kind : {"", "none", "method_not_found", "method_not_allowed"}]
    /\ closers \in Seq(Callbacks)
    /\ Len(closers) <= MaxCallbacks
    /\ lock \in Callers \cup {"free"}
    /\ pos \in 1..(MaxCallbacks + 1)
    /\ ran \in [Callbacks -> 0..MaxCleanups]
    /\ regAt \in [Callbacks -> 0..MaxCleanups]
    /\ cleanups \in 0..MaxCleanups

\* Before the first Server::run: nothing spawned, no listener future, the
\* statics untouched.
ServerIdle ==
    /\ invocation = 0
    /\ pc = "idle"
    /\ nUnits = 0
    /\ idx = 1
    /\ preTask = [u \in Units |-> "none"]
    /\ runTask = [u \in Units |-> "none"]
    /\ listener = [k \in ServerKinds |-> "lazy"]
    /\ cancelled = FALSE
    /\ cancelCalls = 0
    /\ hook = "previous"
    /\ logged = {}
    /\ signalled = FALSE
    /\ result = "none"

\* A Server built without a router of the caller's: no request made yet.
RouterIdle ==
    /\ routes = [p \in UserPaths |-> {}]
    /\ request = NoRequest
    /\ response = NoResponse

\* static CLOSER (closer.rs:15): Mutex::new(Closer::default()), unlocked,
\* no callback registered.
CloserIdle ==
    /\ closers = <<>>
    /\ lock = "free"
    /\ pos = 1
    /\ ran = [cb \in Callbacks |-> 0]
    /\ regAt = [cb \in Callbacks |-> 0]
    /\ cleanups = 0

Init ==
    /\ ServerIdle
    /\ RouterIdle
    /\ CloserIdle

\* Invoke without the collect() of line 144: the map over processes is lazy,
\* so only the first pre-run task exists when the await loop starts.
InvokeLazy(n) ==
    /\ pc \in {"idle", "done"}
    /\ invocation < MaxRuns
    /\ invocation' = invocation + 1
    /\ nUnits' = n
    /\ preTask' = [u \in Units |-> IF u <= n /\ u = 1 THEN "running" ELSE "none"]
    /\ runTask' = [u \in Units |-> "none"]
    /\ listener' = [k \in ServerKinds |-> "lazy"]
    /\ idx' = 1
    /\ logged' = {}
    /\ signalled' = FALSE
    /\ result' = "none"
    /\ pc' = "prerun"
    /\ UNCHANGED <<routerVars, closerVars, cancelled, cancelCalls, hook>>

\* Server::run, lines 114-144: the two listener futures are created (lazy), the
\* collection is read and every unit's timeout(pre_run) task is spawned.
Invoke(n) ==
    /\ pc \in {"idle", "done"}
    /\ invocation < MaxRuns
    /\ invocation' = invocation + 1
    /\ nUnits' = n
    /\ preTask' = [u \in Units |-> IF u <= n THEN "running" ELSE "none"]
    /\ runTask' = [u \in Units |-> "none"]
    /\ listener' = [k \in ServerKinds |-> "lazy"]
    /\ idx' = 1
    /\ logged' = {}
    /\ signalled' = FALSE
    /\ result' = "none"
    /\ pc' = "prerun"
    /\ UNCHANGED <<routerVars, closerVars, cancelled, cancelCalls, hook>>

\* A unit's pre_run returns Ok(()) or Err(e), or panics, inside its spawned
\* task.  The task is detached: it keeps going after Server::run has returned.
PreRunReturn(u, o) ==
    /\ preTask[u] = "running"
    /\ preTask' = [preTask EXCEPT ![u] = o]
    /\ UNCHANGED <<routerVars, closerVars, invocation, signalled, pc, nUnits, idx, runTask, listener,
                   cancelled, cancelCalls, hook, logged, result>>

\* timeout(PROCESS_PRE_RUN_TIMEOUT, ..): the timer fires while pre_run is
\* still pending and the task completes with Err(Elapsed).
PreRunTimeout(u) ==
    /\ preTask[u] = "running"
    /\ preTask' = [preTask EXCEPT ![u] = "elapsed"]
    /\ UNCHANGED <<routerVars, closerVars, invocation, signalled, pc, nUnits, idx, runTask, listener,
                   cancelled, cancelCalls, hook, logged, result>>

\* PreRunAwaitOutcome with the Elapsed arm lost: a timed-out task passes.
PreRunAwaitOutcomeNoTimeout(s) ==
    CASE s = "panic" -> "prerun_join"
      [] OTHER       -> "next"

\* `if let Err(e) = task.await?` on a completed pre-run task.  task.await is
\* Result<Result<anyhow::Result<()>, Elapsed>, JoinError>: `?` returns the
\* JoinError, `Err(e)` matches Elapsed only, and Ok(inner) is dropped whatever
\* inner is, so an Err returned by pre_run itself goes on to the next task.
PreRunAwaitOutcome(s) ==
    CASE s = "panic"   -> "prerun_join"
      [] s = "elapsed" -> "prerun_timeout"
      [] OTHER         -> "next"

\* PreRunAwait that does not wait for the task: a pre_run still pending is
\* passed over like a finished one.
PreRunAwaitNoWait ==
    /\ pc = "prerun"
    /\ idx <= nUnits
    /\ LET o == IF preTask[idx] = "running"
                THEN "next" ELSE PreRunAwaitOutcome(preTask[idx])
       IN  IF o = "next"
           THEN /\ idx' = idx + 1
                /\ UNCHANGED <<pc, result>>
           ELSE /\ pc' = "done"
                /\ result' = o
                /\ UNCHANGED idx
    /\ UNCHANGED <<routerVars, closerVars, invocation, signalled, nUnits, preTask, runTask, listener,
                   cancelled, cancelCalls, hook, logged>>

\* PreRunAwait that aborts what it leaves behind: on returning a pre-run
\* failure the tasks of the units not yet awaited are aborted.
PreRunAwaitAbortRest ==
    /\ pc = "prerun"
    /\ idx <= nUnits
    /\ preTask[idx] # "running"
    /\ LET o == PreRunAwaitOutcome(preTask[idx])
       IN  IF o = "next"
           THEN /\ idx' = idx + 1
                /\ UNCHANGED <<pc, result, preTask>>
           ELSE /\ pc' = "done"
                /\ result' = o
                /\ preTask' = [u \in Units |->
                                 IF u > idx /\ preTask[u] = "running"
                                 THEN "none" ELSE preTask[u]]
                /\ UNCHANGED idx
    /\ UNCHANGED <<routerVars, closerVars, invocation, signalled, nUnits, runTask, listener,
                   cancelled, cancelCalls, hook, logged>>

\* One iteration of the pre-run await loop (lines 146-150).
PreRunAwait ==
    /\ pc = "prerun"
    /\ idx <= nUnits
    /\ preTask[idx] # "running"
    /\ LET o == PreRunAwaitOutcome(preTask[idx])
       IN  IF o = "next"
           THEN /\ idx' = idx + 1
                /\ UNCHANGED <<pc, result>>
           ELSE /\ pc' = "done"
                /\ result' = o
                /\ UNCHANGED idx
    /\ UNCHANGED <<routerVars, closerVars, invocation, signalled, nUnits, preTask, runTask, listener,
                   cancelled, cancelCalls, hook, logged>>

\* The pre-run loop is over: setup_panic_hook() (line 155) replaces the
\* process-wide panic hook.
SetupPanicHook ==
    /\ pc = "prerun"
    /\ idx > nUnits
    /\ hook' = "server"
    /\ pc' = "spawn"
    /\ UNCHANGED <<routerVars, closerVars, invocation, signalled, nUnits, idx, preTask, runTask, listener,
                   cancelled, cancelCalls, logged, result>>

\* Lines 159-162: every unit's run is spawned with a clone of SHUTDOWN_TOKEN;
\* then Server::run awaits try_join!(app_server, metrics_server).
SpawnRunTasks ==
    /\ pc = "spawn"
    /\ runTask' = [u \in Units |-> IF u <= nUnits THEN "started" ELSE "none"]
    /\ pc' = "serve"
    /\ UNCHANGED <<routerVars, closerVars, invocation, signalled, nUnits, idx, preTask, listener,
                   cancelled, cancelCalls, hook, logged, result>>

\* DropListener with the listener spawned as a task of its own: it outlives
\* Server::run and goes on serving.
DropListenerDetached(s) == s

\* What becomes of the other bootstrap_server future when try_join! returns
\* Err and Server::run returns: the future is dropped, closing its socket
\* if it had bound one.
DropListener(s) ==
    IF s \in {"serving", "notified"} THEN "dropped" ELSE s

\* TryJoinErr as join! would behave: the listener's error is kept in the
\* future's output and Server::run goes on to cancel and drain.
TryJoinErrIgnored(k, what) ==
    /\ listener' = [listener EXCEPT ![k] = what]
    /\ pc' = IF \A j \in ServerKinds \ {k} : listener[j] \in {"stopped"} \cup ListenerFailed
             THEN "drain" ELSE pc
    /\ UNCHANGED <<routerVars, closerVars, invocation, signalled, nUnits, idx, preTask, runTask,
                   cancelled, cancelCalls, hook, logged, result>>

\* try_join!(..).map_err(..)? (lines 164-165): listener k's future returns an
\* error; try_join! returns it in the same poll and `?` returns from
\* Server::run, before SHUTDOWN_TOKEN.cancel() and before the run tasks are
\* awaited.
TryJoinErr(k, what) ==
    /\ listener' = [j \in ServerKinds |->
                      IF j = k THEN what ELSE DropListener(listener[j])]
    /\ pc' = "done"
    /\ result' = IF what = "bind_err" THEN "bind_error" ELSE "serve_error"
    /\ UNCHANGED <<routerVars, closerVars, invocation, signalled, nUnits, idx, preTask, runTask,
                   cancelled, cancelCalls, hook, logged>>

\* BindOk with the listener spawned as a task where its future is created
\* (lines 118-128): it binds at any point of Server::run.
BindOkEager(k) ==
    /\ pc \in {"prerun", "spawn", "serve"}
    /\ listener[k] = "lazy"
    /\ listener' = [listener EXCEPT ![k] = "serving"]
    /\ UNCHANGED <<routerVars, closerVars, invocation, signalled, pc, nUnits, idx, preTask, runTask,
                   cancelled, cancelCalls, hook, logged, result>>

\* BindOk with the listener future polled as soon as the pre-run phase is
\* over, before the run tasks are spawned.
BindOkEarly(k) ==
    /\ pc \in {"spawn", "serve"}
    /\ listener[k] = "lazy"
    /\ listener' = [listener EXCEPT ![k] = "serving"]
    /\ UNCHANGED <<routerVars, closerVars, invocation, signalled, pc, nUnits, idx, preTask, runTask,
                   cancelled, cancelCalls, hook, logged, result>>

\* bootstrap_server, lines 185-189: TcpListener::bind succeeds.
BindOk(k) ==
    /\ pc = "serve"
    /\ listener[k] = "lazy"
    /\ listener' = [listener EXCEPT ![k] = "serving"]
    /\ UNCHANGED <<routerVars, closerVars, invocation, signalled, pc, nUnits, idx, preTask, runTask,
                   cancelled, cancelCalls, hook, logged, result>>

\* bootstrap_server, lines 185-187: TcpListener::bind fails.
BindFail(k) ==
    /\ pc = "serve"
    /\ listener[k] = "lazy"
    /\ TryJoinErr(k, "bind_err")

\* bootstrap_server, lines 191-197: axum::serve returns an error.
ServeFail(k) ==
    /\ pc = "serve"
    /\ listener[k] \in {"serving", "notified"}
    /\ TryJoinErr(k, "serve_err")

\* The branches of shutdown_signal()'s select! (lines 253-257): ctrl_c,
\* terminate and quit.
Signals == {"SIGINT", "SIGTERM", "SIGQUIT"}

\* Signal with one signal stream for the whole process: the occurrence is
\* consumed by the first listener that waits for it (the application
\* listener when it is serving), and the other one goes on serving.
SignalFirstOnly(sig) ==
    /\ sig \in Signals
    /\ \E k \in ServerKinds : listener[k] = "serving"
    /\ LET first == IF listener["application"] = "serving"
                    THEN "application" ELSE "metrics"
       IN  listener' = [listener EXCEPT ![first] = "notified"]
    /\ signalled' = TRUE
    /\ UNCHANGED <<routerVars, closerVars, invocation, pc, nUnits, idx, preTask, runTask,
                   cancelled, cancelCalls, hook, logged, result>>

\* shutdown_signal (lines 230-258): one SIGINT, SIGTERM or SIGQUIT completes
\* the select! of every shutdown_signal() future that is installed, that is
\* of every listener inside axum::serve.  A listener that binds later installs
\* its own signal streams and does not see a signal delivered before that.
Signal(sig) ==
    /\ sig \in Signals
    /\ \E k \in ServerKinds : listener[k] = "serving"
    /\ listener' = [k \in ServerKinds |->
                      IF listener[k] = "serving" THEN "notified" ELSE listener[k]]
    /\ signalled' = TRUE
    /\ UNCHANGED <<routerVars, closerVars, invocation, pc, nUnits, idx, preTask, runTask,
                   cancelled, cancelCalls, hook, logged, result>>

\* ListenerStop without with_graceful_shutdown's wait: axum::serve returns
\* Ok(()) whether or not shutdown_signal() has completed.
ListenerStopUnprompted(k) ==
    /\ pc = "serve"
    /\ listener[k] \in {"serving", "notified"}
    /\ listener' = [listener EXCEPT ![k] = "stopped"]
    /\ UNCHANGED <<routerVars, closerVars, invocation, signalled, pc, nUnits, idx, preTask, runTask,
                   cancelled, cancelCalls, hook, logged, result>>

\* bootstrap_server, lines 191-199: after the graceful shutdown axum::serve
\* returns Ok(()) and so does the future.
ListenerStop(k) ==
    /\ pc = "serve"
    /\ listener[k] = "notified"
    /\ listener' = [listener EXCEPT ![k] = "stopped"]
    /\ UNCHANGED <<routerVars, closerVars, invocation, signalled, pc, nUnits, idx, preTask, runTask,
                   cancelled, cancelCalls, hook, logged, result>>

\* TokenCancel as a toggle: a second cancel() un-cancels the token.
TokenCancelToggle(c) == ~c

\* CancellationToken::cancel: the flag of the token after the call.
TokenCancel(c) == TRUE

\* WakeWaiters that notifies nobody: the flag is set, the waiters stay pending.
WakeWaitersNone(rt) == rt

\* CancellationToken::cancel: every task pending in cancelled() is woken.
WakeWaiters(rt) ==
    [u \in Units |-> IF rt[u] = "suspended" THEN "woken" ELSE rt[u]]

\* ShutdownBroadcast with line 167 moved behind the await loop: the run
\* tasks are awaited before cancel() has been called.
ShutdownBroadcastLate ==
    /\ pc = "serve"
    /\ \A k \in ServerKinds : listener[k] = "stopped"
    /\ idx' = 1
    /\ pc' = "drain"
    /\ UNCHANGED <<routerVars, closerVars, invocation, signalled, nUnits, preTask, runTask, listener,
                   cancelled, cancelCalls, hook, logged, result>>

\* try_join! returned Ok (both futures returned Ok(())): line 167,
\* SHUTDOWN_TOKEN.cancel(); then the run tasks are awaited in order.
ShutdownBroadcast ==
    /\ pc = "serve"
    /\ \A k \in ServerKinds : listener[k] = "stopped"
    /\ cancelled' = TokenCancel(cancelled)
    /\ runTask' = WakeWaiters(runTask)
    /\ cancelCalls' = cancelCalls + 1
    /\ idx' = 1
    /\ pc' = "drain"
    /\ UNCHANGED <<routerVars, closerVars, invocation, signalled, nUnits, preTask, listener, hook, logged, result>>

\* DrainOutcome with the JoinError handled like a unit error: a panicked run
\* task is logged and the loop goes on to the next one.
DrainOutcomePanicLogged(s) ==
    CASE s \in {"panic", "err"} -> "log"
      [] OTHER                  -> "next"

\* `if let Err(e) = task.await?` on a finished run task (lines 169-173):
\* a JoinError returns from Server::run, an Err(e) is logged, Ok(()) passes.
DrainOutcome(s) ==
    CASE s = "panic" -> "run_join"
      [] s = "err"   -> "log"
      [] OTHER       -> "next"

\* One iteration of the run-task await loop (lines 169-173).
DrainAwait ==
    /\ pc = "drain"
    /\ idx <= nUnits
    /\ runTask[idx] \in RunExited
    /\ LET o == DrainOutcome(runTask[idx])
       IN  IF o = "run_join"
           THEN /\ pc' = "done"
                /\ result' = "run_join"
                /\ UNCHANGED <<idx, logged>>
           ELSE /\ idx' = idx + 1
                /\ logged' = IF o = "log" THEN logged \cup {idx} ELSE logged
                /\ UNCHANGED <<pc, result>>
    /\ UNCHANGED <<routerVars, closerVars, invocation, signalled, nUnits, preTask, runTask, listener,
                   cancelled, cancelCalls, hook>>

\* Line 176: every run task has been awaited, Server::run returns Ok(()).
Finish ==
    /\ pc = "drain"
    /\ idx > nUnits
    /\ pc' = "done"
    /\ result' = "ok"
    /\ UNCHANGED <<routerVars, closerVars, invocation, signalled, nUnits, idx, preTask, runTask, listener,
                   cancelled, cancelCalls, hook, logged>>

\* UnitPoll of a unit that never looks at the token's state: cancelled or
\* not, the select! parks the task and only the sleep brings it back.
UnitPollIgnoresToken(u) ==
    /\ runTask[u] = "started"
    /\ runTask' = [runTask EXCEPT ![u] = "suspended"]
    /\ UNCHANGED <<routerVars, closerVars, invocation, signalled, pc, nUnits, idx, preTask, listener,
                   cancelled, cancelCalls, hook, logged, result>>

\* DummyProcess::run, lines 65-70: the select! polls token.cancelled(); on a
\* cancelled token it is ready at once and run returns Ok(()), otherwise the
\* task is suspended until the token is cancelled or the sleep elapses.
UnitPoll(u) ==
    /\ runTask[u] = "started"
    /\ runTask' = [runTask EXCEPT ![u] = IF cancelled THEN "ok" ELSE "suspended"]
    /\ UNCHANGED <<routerVars, closerVars, invocation, signalled, pc, nUnits, idx, preTask, listener,
                   cancelled, cancelCalls, hook, logged, result>>

\* DummyProcess::run, lines 72-74: the sleep branch wins and the loop goes
\* round.
UnitTick(u) ==
    /\ runTask[u] = "suspended"
    /\ runTask' = [runTask EXCEPT ![u] = "started"]
    /\ UNCHANGED <<routerVars, closerVars, invocation, signalled, pc, nUnits, idx, preTask, listener,
                   cancelled, cancelCalls, hook, logged, result>>

\* DummyProcess::run, lines 67-70: the woken task is polled, the cancelled()
\* branch is taken and run returns Ok(()).
UnitResume(u) ==
    /\ runTask[u] = "woken"
    /\ runTask' = [runTask EXCEPT ![u] = "ok"]
    /\ UNCHANGED <<routerVars, closerVars, invocation, signalled, pc, nUnits, idx, preTask, listener,
                   cancelled, cancelCalls, hook, logged, result>>

\* UnitReturn under a fail-fast supervisor: a unit's error cancels the token
\* and wakes the other units.
UnitReturnFailFast(u, o) ==
    /\ runTask[u] = "started"
    /\ runTask' = IF o = "err"
                  THEN [WakeWaiters(runTask) EXCEPT ![u] = o]
                  ELSE [runTask EXCEPT ![u] = o]
    /\ cancelled' = IF o = "err" THEN TRUE ELSE cancelled
    /\ UNCHANGED <<routerVars, closerVars, invocation, signalled, pc, nUnits, idx, preTask, listener,
                   cancelCalls, hook, logged, result>>

\* Process::run of any implementation: it may return Ok(()) or Err(e), or
\* panic, at any time, whatever the token says.
UnitReturn(u, o) ==
    /\ runTask[u] = "started"
    /\ runTask' = [runTask EXCEPT ![u] = o]
    /\ UNCHANGED <<routerVars, closerVars, invocation, signalled, pc, nUnits, idx, preTask, listener,
                   cancelled, cancelCalls, hook, logged, result>>

Next ==
    \/ \E n \in 0..MaxUnits : Invoke(n)
    \/ \E u \in Units, o \in {"ok", "err", "panic"} : PreRunReturn(u, o)
    \/ \E u \in Units : PreRunTimeout(u)
    \/ PreRunAwait
    \/ SetupPanicHook
    \/ SpawnRunTasks
    \/ \E k \in ServerKinds : BindOk(k)
    \/ \E k \in ServerKinds : BindFail(k)
    \/ \E k \in ServerKinds : ServeFail(k)
    \/ \E sig \in Signals : Signal(sig)
    \/ \E k \in ServerKinds : ListenerStop(k)
    \/ ShutdownBroadcast
    \/ DrainAwait
    \/ Finish
    \/ \E u \in Units : UnitPoll(u)
    \/ \E u \in Units : UnitTick(u)
    \/ \E u \in Units : UnitResume(u)
    \/ \E u \in Units, o \in {"ok", "err", "panic"} : UnitReturn(u, o)

Spec == Init /\ [][Next]_vars

\* The scheduling the tokio runtime gives: a timer that is armed fires, and a
\* task that is ready to make progress (Server::run itself, a woken run task)
\* is polled.
FairSpec ==
    /\ Spec
    /\ \A u \in Units : WF_vars(PreRunTimeout(u))
    /\ \A u \in Units : WF_vars(UnitResume(u))
    /\ WF_vars(PreRunAwait)
    /\ WF_vars(SetupPanicHook)
    /\ WF_vars(SpawnRunTasks)
    /\ WF_vars(ShutdownBroadcast)
    /\ WF_vars(DrainAwait)
    /\ WF_vars(Finish)

\* FairSpec with cooperative units, as DummyProcess::run is (lines 63-77):
\* a unit that is executing comes round to its select! on token.cancelled().
CoopSpec ==
    /\ FairSpec
    /\ \A u \in Units : WF_vars(UnitPoll(u))

(***************************************************************************)
(* The router: setup_router and its fallback handlers                      *)
(***************************************************************************)

\* get_default_router (lines 276-280): readiness and liveness, both GET.
get_default_router == [p \in DefaultPaths |-> {"GET"}]

\* setup_router (lines 202-207): the caller's router merged with the default
\* one; the result maps every path to the methods some route serves on it.
setup_router(router) ==
    [p \in Paths |->
        (IF p \in UserPaths THEN router[p] ELSE {})
            \cup (IF p \in DefaultPaths THEN get_default_router[p] ELSE {})]

\* What a matched route's handler answers (readiness, liveness: StatusCode::OK).
RouteResponse == [status |-> OK, kind |-> "none"]

\* fallback_handler (lines 336-350): the response built for a path no route
\* matches.
fallback_handler ==
    [status |-> INTERNAL_SERVER_ERROR, kind |-> "method_not_found"]

\* fallback_handler_405 (lines 352-366): the response built for a method the
\* matched route does not serve.
fallback_handler_405 ==
    [status |-> INTERNAL_SERVER_ERROR, kind |-> "method_not_allowed"]

\* The router built by setup_router (lines 208-212) answering a request:
\* .fallback(fallback_handler) takes the paths without a route,
\* .method_not_allowed_fallback(fallback_handler_405) the methods a matched
\* path does not serve.
RouterCall(table, path, method) ==
    IF table[path] = {} THEN fallback_handler
    ELSE IF method \notin table[path] THEN fallback_handler_405
    ELSE RouteResponse

\* One request served by the router.
Request(path, method) ==
    /\ request' = <<path, method>>
    /\ response' = RouterCall(setup_router(routes), path, method)
    /\ UNCHANGED <<serverVars, closerVars, routes>>

\* Server::router(..): any router of the caller's.
RouterInit ==
    /\ ServerIdle
    /\ CloserIdle
    /\ routes \in [UserPaths -> SUBSET Methods]
    /\ request = NoRequest
    /\ response = NoResponse

RouterNext == \E path \in Paths, method \in Methods : Request(path, method)

RouterSpec == RouterInit /\ [][RouterNext]_vars

(***************************************************************************)
(* caslex-extra's closer                                                   *)
(***************************************************************************)

\* push_callback (closer.rs:18-20, Closer::push 35-37): under the lock, the
\* callback is appended to closers.  The guard is a temporary of the one
\* statement, so lock, push and unlock are one step for every other thread.
push_callback(callback) ==
    /\ lock = "free"
    /\ Len(closers) < MaxCallbacks
    /\ \A i \in 1..Len(closers) : closers[i] # callback
    /\ closers' = Append(closers, callback)
    /\ regAt' = [regAt EXCEPT ![callback] = cleanups]
    /\ UNCHANGED <<serverVars, routerVars, lock, pos, ran, cleanups>>

\* cleanup_resources (closer.rs:23-24): CLOSER.lock().unwrap() obtains the
\* guard and close() starts at the first callback.
cleanup_resources(t) ==
    /\ lock = "free"
    /\ cleanups < MaxCleanups
    /\ lock' = t
    /\ pos' = 1
    /\ UNCHANGED <<serverVars, routerVars, closers, ran, regAt, cleanups>>

\* Closer::close (closer.rs:38-40): one turn of
\* closers.iter_mut().for_each(|cb| cb()), the next callback is invoked.
close(t) ==
    /\ lock = t
    /\ pos <= Len(closers)
    /\ ran' = [ran EXCEPT ![closers[pos]] = @ + 1]
    /\ pos' = pos + 1
    /\ UNCHANGED <<serverVars, routerVars, closers, lock, regAt, cleanups>>

\* cleanup_resources_return with close() draining the vector
\* (closers.drain(..)): the callbacks are gone after the call.
cleanup_resources_drained(t) ==
    /\ lock = t
    /\ pos > Len(closers)
    /\ lock' = "free"
    /\ pos' = 1
    /\ cleanups' = cleanups + 1
    /\ closers' = <<>>
    /\ UNCHANGED <<serverVars, routerVars, ran, regAt>>

\* cleanup_resources (closer.rs:24-25): the iteration is over, close()
\* returns, the guard is dropped at the end of the statement.
cleanup_resources_return(t) ==
    /\ lock = t
    /\ pos > Len(closers)
    /\ lock' = "free"
    /\ pos' = 1
    /\ cleanups' = cleanups + 1
    /\ UNCHANGED <<serverVars, routerVars, closers, ran, regAt>>

CloserNext ==
    \/ \E callback \in Callbacks : push_callback(callback)
    \/ \E t \in Callers : cleanup_resources(t)
    \/ \E t \in Callers : close(t)
    \/ \E t \in Callers : cleanup_resources_return(t)

CloserSpec == Init /\ [][CloserNext]_vars

(***************************************************************************)
(* Claims                                                                  *)
(***************************************************************************)

NoListenerBound == \A k \in ServerKinds : listener[k] = "lazy"
NoRunInvoked == \A u \in Units : runTask[u] = "none"
ListenerFailure == {"bind_error", "serve_error"}
PreRunFailure == {"prerun_timeout", "prerun_join"}
CleanListenerStop == \A k \in ServerKinds : listener[k] = "stopped"

\* C1: if some registered unit's pre_run returned an error, Server::run
\* aborts startup: no listener is ever bound, no unit's run is invoked, and
\* the value it returns is a failure.
C1_PreRunErrorAborts ==
    (\E u \in Registered : preTask[u] = "err")
        => /\ NoListenerBound
           /\ NoRunInvoked
           /\ pc \in {"prerun", "done"}
           /\ (pc = "done" => result \in PreRunFailure)

\* C2: once a unit's pre-run timeout has fired, Server::run eventually
\* returns a pre-run failure, and in that execution no listener is bound and
\* no unit's run is invoked.
C2_TimeoutAborts ==
    /\ \A u \in Units :
         (preTask[u] = "elapsed") ~> (pc = "done" /\ result \in PreRunFailure)
    /\ []((\E u \in Registered : preTask[u] = "elapsed")
            => NoListenerBound /\ NoRunInvoked)

C2_Witness ==
    /\ pc = "done"
    /\ result = "prerun_timeout"
    /\ \E u \in Registered : preTask[u] = "elapsed"
    /\ \E u \in Registered : preTask[u] = "running"

\* C3: whenever a listener's bind or serve call has failed, Server::run has
\* returned and its value is that listener's failure, whatever state the
\* units' run tasks are in.
C3_ListenerFailureReturned ==
    \A k \in ServerKinds :
        listener[k] \in ListenerFailed
            => /\ pc = "done"
               /\ result = IF listener[k] = "bind_err"
                           THEN "bind_error" ELSE "serve_error"

C3_Witness ==
    /\ pc = "done"
    /\ result = "serve_error"
    /\ \E u \in Registered : runTask[u] = "err"
    /\ \E u \in Registered : runTask[u] = "panic"

\* C4: when Server::run has returned a listener failure, cancel() has been
\* broadcast: no unit is left running with a token that is not cancelled.
C4_CancelOnListenerFailure ==
    (pc = "done" /\ result \in ListenerFailure)
        => \A u \in Registered : runTask[u] \in RunLive => cancelled

\* C5: when Server::run has returned a listener failure, every spawned run
\* task has already finished.
C5_DrainOnListenerFailure ==
    (pc = "done" /\ result \in ListenerFailure)
        => \A u \in Registered : runTask[u] \in RunExited

\* C6: when Server::run has resolved after both listeners stopped cleanly,
\* every unit's run has finished.
C6_DrainOnCleanStop ==
    (pc = "done" /\ CleanListenerStop)
        => \A u \in Registered : runTask[u] \in RunExited

\* C7: when Server::run has resolved after both listeners stopped cleanly,
\* its value is success and every unit error has been logged.
C7_CleanStopIsSuccess ==
    (pc = "done" /\ CleanListenerStop)
        => /\ result = "ok"
           /\ \A u \in Registered : runTask[u] = "err" => u \in logged

\* C8: while an invocation has not called cancel() itself, the units it
\* spawned hold a token that is not cancelled: no other invocation's cancel()
\* reaches them.
C8_TokenPerInvocation ==
    (pc = "serve" /\ nUnits > 0) => ~cancelled

\* C9: the token only goes from not-cancelled to cancelled: no step
\* un-cancels it, and after every cancel() call it is cancelled.
C9_CancelOneWay ==
    [][/\ cancelled => cancelled'
       /\ cancelCalls' > cancelCalls => cancelled']_vars

C9_Witness ==
    /\ cancelCalls >= 2
    /\ cancelled

\* C10: no wake-up is lost: no unit is ever pending in cancelled() on a
\* cancelled token (cancel() wakes every unit suspended at that moment, and
\* a poll after cancel() does not suspend), and a woken unit does not stay
\* woken for ever.
C10_NoLostWakeup ==
    /\ [](cancelled => \A u \in Units : runTask[u] # "suspended")
    /\ \A u \in Units : (runTask[u] = "woken") ~> (runTask[u] # "woken")

C10_Witness ==
    /\ cancelled
    /\ \E u \in Registered : runTask[u] = "woken"
    /\ \E u \in Registered : runTask[u] = "ok"

AllPreRunOk == \A u \in Registered : preTask[u] = "ok"

\* C11 (as claimed): if all pre_run calls succeeded, a run loop that has
\* observed a non-cancelled signal (it is pending in cancelled()) finds both
\* listener sockets bound.
C11_BoundBeforeObserve ==
    (AllPreRunOk /\ \E u \in Registered : runTask[u] = "suspended")
        => \A k \in ServerKinds : listener[k] \in ListenerBound

\* C11 (amended): the order is the other way round: a listener future has
\* been polled (bound, or failed to bind) only when every registered unit's
\* run task has already been spawned.
C11_SpawnBeforeBind ==
    (\E k \in ServerKinds : listener[k] # "lazy")
        => \A u \in Registered : runTask[u] # "none"

C11_Witness ==
    /\ AllPreRunOk
    /\ \A k \in ServerKinds : listener[k] = "serving"
    /\ \E u \in Registered : runTask[u] = "suspended"

C13_BindFailureFatal ==
    [][\A k \in ServerKinds :
        /\ (listener[k] # "bind_err" /\ listener'[k] = "bind_err")
              => /\ pc' = "done"
                 /\ result' = "bind_error"
                 /\ signalled' = signalled
        /\ (listener[k] = "bind_err" /\ invocation' = invocation)
              => /\ listener'[k] = "bind_err"
                 /\ pc' = "done"
                 /\ result' = "bind_error"]_vars

C13_Witness ==
    /\ pc = "done"
    /\ result = "bind_error"
    /\ ~signalled
    /\ \E k \in ServerKinds : listener[k] = "dropped"

\* C14: no failure is silently dropped: in the step in which Server::run
\* resolves, every error returned by a pre_run whose task run() has awaited
\* is the value run() returns (nothing logs a pre-run error), every error a
\* run has returned has been logged, and a listener failure is the value
\* run() returns.
C14_NoFailureDropped ==
    [][(pc # "done" /\ pc' = "done")
          => /\ \A u \in 1..nUnits' :
                  /\ (preTask'[u] = "err" /\ u <= idx')
                        => (result' \in PreRunFailure /\ idx' = u)
                  /\ runTask'[u] = "err" => u \in logged'
             /\ \A k \in ServerKinds :
                  listener'[k] \in ListenerFailed => result' \in ListenerFailure]_vars

\* C15: a step in which a unit's run returns an error changes nothing else:
\* the token is not cancelled, cancel() is not called, both listeners and
\* Server::run stay where they are, and every other unit's run task stays
\* in its state.
C15_UnitErrorIsLocal ==
    [][\A u \in Units :
        (runTask[u] \in RunLive /\ runTask'[u] = "err")
            => /\ cancelled' = cancelled
               /\ cancelCalls' = cancelCalls
               /\ listener' = listener
               /\ pc' = pc
               /\ \A v \in Units \ {u} : runTask'[v] = runTask[v]]_vars

C15_Witness ==
    /\ pc = "serve"
    /\ ~cancelled
    /\ \A k \in ServerKinds : listener[k] = "serving"
    /\ \E u \in Registered : runTask[u] = "err"
    /\ \E u \in Registered : runTask[u] = "suspended"

\* C16: while any registered unit's pre_run is still in progress, neither
\* listener future has been polled: no bind has been attempted.
C16_NoBindDuringPreRun ==
    (\E u \in Registered : preTask[u] = "running")
        => \A k \in ServerKinds : listener[k] = "lazy"

C16_Witness ==
    /\ pc = "prerun"
    /\ idx = 2
    /\ preTask[1] = "ok"
    /\ preTask[2] = "running"
    /\ \A k \in ServerKinds : listener[k] = "lazy"

\* C17: within one invocation every registered unit's pre_run is launched
\* when run() is entered and never again; a unit's run is started only
\* once, after every registered unit's pre_run has returned, and a run task
\* that has finished is not started again.
C17_OncePerInvocation ==
    [][/\ invocation' # invocation
            => \A u \in Units :
                 preTask'[u] = IF u <= nUnits' THEN "running" ELSE "none"
       /\ invocation' = invocation
            => \A u \in Units :
                 /\ preTask'[u] = "running" => preTask[u] = "running"
                 /\ runTask[u] \in RunExited => runTask'[u] = runTask[u]
                 /\ runTask[u] # "none" => runTask'[u] # "none"
       /\ \A u \in Units :
            (runTask[u] = "none" /\ runTask'[u] # "none")
                => /\ u \in Registered
                   /\ runTask'[u] = "started"
                   /\ \A v \in Registered : preTask[v] \in {"ok", "err"}]_vars

C17_Witness ==
    /\ nUnits >= 2
    /\ pc = "serve"
    /\ \A u \in Registered : runTask[u] \in RunLive
    /\ \A u \in Registered : preTask[u] \in {"ok", "err"}

\* C18: every registered unit's pre-run task (pre_run under its own timeout)
\* has been launched before the supervisor awaits the first of them, and a
\* step of one unit's pre-run task (returning, panicking, timing out) changes
\* neither another unit's pre-run task nor the supervisor's position.
C18_PreRunsIndependent ==
    /\ [](pc = "prerun" => \A u \in Registered : preTask[u] # "none")
    /\ [][\A u \in Units :
            (invocation' = invocation /\ preTask'[u] # preTask[u])
                => /\ \A v \in Units \ {u} : preTask'[v] = preTask[v]
                   /\ idx' = idx
                   /\ pc' = pc]_vars

C18_Witness ==
    /\ pc = "prerun"
    /\ idx = 1
    /\ preTask[1] = "running"
    /\ preTask[2] = "elapsed"

\* C19: the broadcast is triggered by the first listener whose serve call
\* returns: once one listener has returned after the termination signal,
\* Server::run can call cancel() without the other listener having returned.
C19_FirstListenerTriggers ==
    (pc = "serve" /\ \E k \in ServerKinds : listener[k] = "stopped")
        => ENABLED ShutdownBroadcast

\* C20: on a clean shutdown cancel() is called exactly once in the
\* invocation and before any run task is awaited: the step that leaves
\* try_join! with both listeners stopped makes one cancel() call, it is the
\* only step that calls cancel(), nothing calls it again while the run tasks
\* are awaited or afterwards, and the token is cancelled throughout the
\* await loop.
C20_CancelOnceBeforeDrain ==
    /\ [](pc = "drain" => cancelled)
    /\ [][/\ (pc = "serve" /\ pc' = "drain") => cancelCalls' = cancelCalls + 1
          /\ cancelCalls' # cancelCalls
                => /\ pc = "serve"
                   /\ pc' = "drain"
                   /\ idx' = 1
                   /\ CleanListenerStop
          /\ (pc \in {"drain", "done"} /\ invocation' = invocation)
                => /\ pc' \in {"drain", "done"}
                   /\ cancelCalls' = cancelCalls]_vars

C20_Witness ==
    /\ pc = "drain"
    /\ idx = 1
    /\ cancelled
    /\ cancelCalls = 1
    /\ \E u \in Registered : runTask[u] = "woken"

\* C21: shutdown is live for cooperative units: when all pre_run calls
\* succeeded, both listeners bound and, after a termination signal, both
\* serve calls have returned, Server::run eventually resolves.
C21_CooperativeShutdownLive ==
    (pc = "serve" /\ AllPreRunOk /\ signalled /\ CleanListenerStop) ~> (pc = "done")

C21_Witness ==
    /\ pc = "done"
    /\ result = "ok"
    /\ nUnits >= 2
    /\ AllPreRunOk
    /\ signalled
    /\ CleanListenerStop
    /\ \A u \in Registered : runTask[u] = "ok"

\* C22: each listener inside axum::serve waits for its own graceful-shutdown
\* trigger (it stops cleanly only after the trigger completed, and does not
\* go back to accepting), and one occurrence of any one of SIGINT, SIGTERM
\* and SIGQUIT can be delivered and completes the trigger of every listener
\* that is serving: with both serving, one signal stops both.
C22_OneSignalStopsBoth ==
    /\ [](\A sig \in {"SIGINT", "SIGTERM", "SIGQUIT"} :
            (\E k \in ServerKinds : listener[k] = "serving") => ENABLED Signal(sig))
    /\ [][\A k \in ServerKinds :
            /\ (listener[k] = "serving" /\ listener'[k] = "notified")
                  => /\ signalled'
                     /\ \A j \in ServerKinds :
                          listener[j] = "serving" => listener'[j] = "notified"
            /\ (listener[k] # "stopped" /\ listener'[k] = "stopped")
                  => listener[k] = "notified"
            /\ listener[k] = "notified" => listener'[k] # "serving"]_vars

C22_Witness ==
    /\ pc = "serve"
    /\ signalled
    /\ \A k \in ServerKinds : listener[k] = "notified"

\* C23: the pre-run tasks are awaited one at a time in registration order,
\* and Server::run returns at the first unit in that order whose pre-run
\* timed out; the step that returns leaves the tasks of the later units as
\* they are (not awaited, not aborted): one that is still executing goes on
\* and can return after run() has returned.
C23_ReturnsAtFirstTimeout ==
    /\ []((pc = "done" /\ result = "prerun_timeout")
            => /\ idx \in Registered
               /\ preTask[idx] = "elapsed"
               /\ \A u \in 1..(idx - 1) : preTask[u] \in {"ok", "err"})
    /\ [](\A u \in Registered :
            (pc = "done" /\ result \in PreRunFailure /\ u > idx
                /\ preTask[u] = "running")
                => ENABLED PreRunReturn(u, "ok"))
    /\ [][/\ (pc = "prerun" /\ invocation' = invocation /\ idx' # idx)
                => /\ idx' = idx + 1
                   /\ preTask[idx] \notin {"none", "running"}
          /\ (pc = "prerun" /\ pc' = "done")
                => /\ preTask' = preTask
                   /\ idx' = idx
          /\ (pc = "done" /\ result \in PreRunFailure /\ invocation' = invocation)
                => idx' = idx]_vars

C23_Witness ==
    /\ nUnits = 2
    /\ pc = "done"
    /\ result = "prerun_timeout"
    /\ idx = 1
    /\ preTask[1] = "elapsed"
    /\ preTask[2] = "running"

\* C24: a panic of a unit's task is propagated as the result of Server::run.
\* When the await loop comes to a run task that panicked, run() returns the
\* join failure in that step: after a clean listener shutdown with a
\* panicked unit the value is an error, not success, and the run tasks of
\* the later units are never awaited (their errors are never logged).  The
\* same holds for a pre-run task that panicked: run() returns its join
\* failure with no listener bound and no run started.
C24_PanicPropagates ==
    /\ []((pc = "done" /\ CleanListenerStop
             /\ \E u \in Registered : runTask[u] = "panic")
            => result = "run_join")
    /\ []((pc = "done" /\ result = "run_join")
            => /\ CleanListenerStop
               /\ idx \in Registered
               /\ runTask[idx] = "panic"
               /\ \A u \in 1..(idx - 1) : runTask[u] \in RunReturned
               /\ \A u \in Registered : u > idx => u \notin logged)
    /\ []((pc = "done" /\ result = "prerun_join")
            => /\ idx \in Registered
               /\ preTask[idx] = "panic"
               /\ NoListenerBound
               /\ NoRunInvoked)
    /\ [][/\ (pc = "drain" /\ idx <= nUnits /\ runTask[idx] = "panic"
                /\ (pc' # pc \/ idx' # idx))
                => /\ pc' = "done"
                   /\ result' = "run_join"
                   /\ idx' = idx
          /\ (pc = "prerun" /\ idx <= nUnits /\ preTask[idx] = "panic"
                /\ (pc' # pc \/ idx' # idx))
                => /\ pc' = "done"
                   /\ result' = "prerun_join"
                   /\ idx' = idx
          /\ (pc = "done" /\ invocation' = invocation)
                => /\ idx' = idx
                   /\ logged' = logged]_vars

C24_Witness ==
    /\ pc = "done"
    /\ result = "run_join"
    /\ CleanListenerStop
    /\ idx = 1
    /\ runTask[1] = "panic"
    /\ runTask[2] = "err"
    /\ 2 \notin logged

\* C25: when one listener fails while the other is serving, the step in
\* which Server::run returns drops the other listener's future; once run()
\* has resolved with a listener failure neither listener is accepting or
\* serving, and a dropped listener does not come back in that invocation.
C25_OtherListenerDropped ==
    /\ []((pc = "done" /\ result \in ListenerFailure)
            => \A k \in ServerKinds : listener[k] \notin {"serving", "notified"})
    /\ [][\A k \in ServerKinds : \A j \in ServerKinds \ {k} :
            /\ (listener[k] \notin ListenerFailed /\ listener'[k] \in ListenerFailed
                  /\ listener[j] \in {"serving", "notified"})
                  => /\ listener'[j] = "dropped"
                     /\ pc' = "done"
            /\ (listener[j] = "dropped" /\ invocation' = invocation)
                  => listener'[j] = "dropped"]_vars

C25_Witness ==
    /\ pc = "done"
    /\ result = "serve_error"
    /\ listener["application"] = "serve_err"
    /\ listener["metrics"] = "dropped"

\* C26: Server::run installs its panic hook only after the pre-run phase
\* has succeeded (every registered unit's pre_run returned Ok) and before
\* any unit's run or any listener is started; a run() that returns from the
\* pre-run phase does not install it; and once installed the hook stays,
\* also after run() has returned.
C26_HookAfterPreRunSuccess ==
    /\ []((~NoRunInvoked \/ ~NoListenerBound) => hook = "server")
    /\ [][/\ (pc = "prerun" /\ pc' = "spawn")
                => /\ hook' = "server"
                   /\ AllPreRunOk
                   /\ NoRunInvoked
                   /\ NoListenerBound
          /\ hook' # hook
                => /\ pc = "prerun"
                   /\ pc' = "spawn"
          /\ (pc = "prerun" /\ pc' = "done") => hook' = hook
          /\ hook = "server" => hook' = "server"]_vars

\* C27: a request whose path matches no route is answered with status 404
\* and error kind method_not_found; a request whose method the matched
\* route does not serve is answered with status 405 and error kind
\* method_not_allowed.
C27_FallbackStatus ==
    request # NoRequest
        => LET served == setup_router(routes)[request[1]]
           IN  /\ served = {}
                     => /\ response.status = 404
                        /\ response.kind = "method_not_found"
               /\ (served # {} /\ request[2] \notin served)
                     => /\ response.status = 405
                        /\ response.kind = "method_not_allowed"

\* C28: a cleanup_resources call invokes every registered callback exactly
\* once, in registration order, holding the closer lock from the first
\* callback to the last (no registration comes in between), and removes
\* none: with no call in progress a registered callback has run once for
\* every call made since it was registered, so one registered before the
\* first call has run k times after k calls.
C28_CleanupRunsAllEachCall ==
    /\ [](\A i \in 1..Len(closers) :
            ran[closers[i]] = (cleanups - regAt[closers[i]])
                                + (IF lock # "free" /\ i < pos THEN 1 ELSE 0))
    /\ [][/\ \A cb \in Callbacks :
                ran'[cb] # ran[cb]
                    => /\ lock # "free"
                       /\ lock' = lock
                       /\ pos <= Len(closers)
                       /\ cb = closers[pos]
                       /\ ran'[cb] = ran[cb] + 1
                       /\ pos' = pos + 1
          /\ (lock = "free" /\ lock' # "free") => pos' = 1
          /\ (lock # "free" /\ lock' = "free")
                => /\ pos = Len(closers) + 1
                   /\ cleanups' = cleanups + 1
          /\ lock # "free" => closers' = closers
          /\ closers' # closers
                => \E cb \in Callbacks : closers' = Append(closers, cb)]_vars

C28_Witness ==
    /\ lock = "free"
    /\ cleanups = 2
    /\ closers = <<2, 1>>
    /\ regAt[2] = 0
    /\ ran[2] = 2
    /\ regAt[1] = 1
    /\ ran[1] = 1

====
